---- MODULE Spec2Model ----
(***************************************************************************)
(* ScaleMart flash-sale order admission: the stock counters and rate       *)
(* windows kept in Redis, the order records kept in MongoDB, the Celery    *)
(* confirmation queue, and the request handlers flash_buy and cancel_order *)
(* with the worker task process_order_task.                                *)
(*                                                                         *)
(* Every awaited store operation of a handler is one atomic step; the      *)
(* handlers interleave freely between their steps.  req is the log of the  *)
(* requests received so far: each entry holds the request's inputs, the    *)
(* handler's position and locals and, once it has returned, its response.  *)
(***************************************************************************)
EXTENDS Integers, Sequences, FiniteSets, TLC

VARIABLES stock, orders, queue, delivered, rate, now, req, events,
          sids, connected_clients, rooms, inbox

\* the state of the Socket.IO server: the connections, the records the handlers keep
\* of them, the rooms and what each client has been sent
socket == <<sids, connected_clients, rooms, inbox>>

vars == <<stock, orders, queue, delivered, rate, now, req, events, socket>>

----------------------------------------------------------------------------
(* Bounds of the model *)

\* seed stock of every catalogue product (50, 30, ... in the seed data)
InitialStock == 2
\* largest quantity a request asks for
MaxQty == 2
\* units on sale in a run of concurrent purchases
FlashStock == 1
\* number of requests of a run of concurrent purchases
FlashReqs == 2
\* number of requests of a run of concurrent purchases and cancellations
NumReqs == 3
\* number of requests of a sequential run
SeqReqs == 3
\* number of requests of a sequential run with the worker and the clock
WindowReqs == 2
\* number of clock ticks of a run
MaxTicks == 3
\* number of times the queue delivers one message (at-least-once delivery)
MaxDeliveries == 2

\* the most entries a client's subscription list is let grow to
MaxSubs == 2

\* the most messages the server sends to its clients
MaxMessages == 5

(* Program constants *)

\* check_rate_limit(current_user.id, "flash_buy", limit=10, window=60)
RateLimit == 10
RateWindow == 60
\* timedelta(minutes=5), in seconds
CancelWindow == 300

Users == {"u1", "u2"}
\* the products initialize_products seeds (two of the six)
Catalogue == {"prod_1", "prod_2"}
\* an identifier with no product:{id} key
UnknownProduct == "prod_x"

\* the stock counts a stock update is published with
Counts == {0, 1}

\* the session identifiers of the clients that may connect
Sids == {"s1", "s2"}

\* quantity: int = Field(default=1, ge=1, le=10) in server_enhanced.py
MaxOrderQty == 10
\* the quantities a client may send: below, at and above the bounds of an order
Quantities == {-1, 0, 1, MaxOrderQty + 1}

\* number of requests of a rate-limiter run: two full windows and a denial in each
RateReqs == 2 * RateLimit + 2

----------------------------------------------------------------------------
(* Redis: the rate-limit keys *)

\* a rate_limit:{user}:{action} key that does not exist
NoKey == [count |-> 0, expires |-> 0]

RateGet_shared_key(u) == rate["u1"].count

\* redis_client.get(key): the count, or nothing (0) when the key does not exist
RateGet(u) == rate[u].count

RateLimitExceeded_off_by_one(count, limit) == count > limit

\* if count and int(count) >= limit: raise 429
RateLimitExceeded(count, limit) == count >= limit

\* pipe.incr(key); pipe.expire(key, window): one MULTI/EXEC transaction
RatePipeline(u, window) ==
    [count |-> rate[u].count + 1, expires |-> now + window]

ExpireKeys_never(t) == rate

\* Redis drops a key once its time to live has elapsed
ExpireKeys(t) ==
    [u \in Users |-> IF t < rate[u].expires THEN rate[u] ELSE NoKey]

----------------------------------------------------------------------------
(* The request log *)

NewReq ==
    [kind |-> "", user |-> "", product |-> "", quantity |-> 0, oid |-> 0,
     pc |-> "", result |-> "", count |-> 0, incr |-> 0, new_stock |-> 0,
     created |-> 0,
     refunded |-> 0]

InFlight(r) == req[r].pc # "done"

Settled == \A r \in DOMAIN req : ~InFlight(r)

\* the handler of request r moves from one position to the next
Goto(r, to) == req' = [req EXCEPT ![r].pc = to]

Return(r, res) == req' = [req EXCEPT ![r].pc = "done", ![r].result = res]

----------------------------------------------------------------------------
(* flash_buy *)

check_rate_limit_after_decr(u, p, q) ==
    LET count == RateGet(u)
        denied == RateLimitExceeded(count, RateLimit)
    IN  /\ req' = Append(req, [NewReq EXCEPT !.kind = "flash_buy", !.user = u,
                                  !.product = p, !.quantity = q, !.count = count,
                                  !.pc = IF denied THEN "done" ELSE "rate_incr",
                                  !.result = IF denied THEN "RateLimited" ELSE ""])
        /\ stock' = IF denied /\ p \in Catalogue
                    THEN [stock EXCEPT ![p] = @ - q] ELSE stock
        /\ UNCHANGED <<orders, queue, delivered, rate, now, events, socket>>

check_rate_limit_denial_extends(u, p, q) ==
    LET count == RateGet(u)
        denied == RateLimitExceeded(count, RateLimit)
    IN  /\ req' = Append(req, [NewReq EXCEPT !.kind = "flash_buy", !.user = u,
                                  !.product = p, !.quantity = q, !.count = count,
                                  !.pc = IF denied THEN "done" ELSE "rate_incr",
                                  !.result = IF denied THEN "RateLimited" ELSE ""])
        /\ rate' = IF denied
                   THEN [rate EXCEPT ![u].expires = now + RateWindow] ELSE rate
        /\ UNCHANGED <<stock, orders, queue, delivered, now, events, socket>>

\* check_rate_limit, the GET: the request arrives and reads its window's count
check_rate_limit(u, p, q) ==
    LET count == RateGet(u)
        denied == RateLimitExceeded(count, RateLimit)
    IN  /\ req' = Append(req, [NewReq EXCEPT !.kind = "flash_buy", !.user = u,
                                  !.product = p, !.quantity = q, !.count = count,
                                  !.pc = IF denied THEN "done" ELSE "rate_incr",
                                  !.result = IF denied THEN "RateLimited" ELSE ""])
        /\ UNCHANGED <<stock, orders, queue, delivered, rate, now, events, socket>>

\* check_rate_limit, the pipeline: INCR and EXPIRE; incr is what INCR returned
check_rate_limit_incr(r) ==
    /\ req[r].pc = "rate_incr"
    /\ rate' = [rate EXCEPT ![req[r].user] = RatePipeline(req[r].user, RateWindow)]
    /\ req' = [req EXCEPT ![r].pc = "decr",
                          ![r].incr = RatePipeline(req[r].user, RateWindow).count]
    /\ UNCHANGED <<stock, orders, queue, delivered, now, events, socket>>

\* class FlashBuyRequest of server.py, which flash_buy takes: quantity: int = 1,
\* any integer is accepted
FlashBuyRequest(q) == q \in Int

\* the request body is validated, then the handler runs; a body that fails the
\* validation is answered without the handler being called
flash_buy(u, p, q) ==
    IF FlashBuyRequest(q)
    THEN check_rate_limit(u, p, q)
    ELSE /\ req' = Append(req, [NewReq EXCEPT !.kind = "flash_buy", !.user = u,
                                   !.product = p, !.quantity = q, !.pc = "done",
                                   !.result = "Invalid"])
         /\ UNCHANGED <<stock, orders, queue, delivered, rate, now, events, socket>>

OutOfStock_off_by_one(new_stock) == new_stock < -1

\* if new_stock < 0
OutOfStock(new_stock) == new_stock < 0

flash_buy_decr_no_lookup(r) ==
    /\ req[r].pc = "decr"
    /\ IF req[r].product \notin Catalogue
       THEN /\ Return(r, "OutOfStock")
            /\ UNCHANGED stock
       ELSE LET p == req[r].product
                new_stock == stock[p] - req[r].quantity
            IN  /\ stock' = [stock EXCEPT ![p] = new_stock]
                /\ req' = [req EXCEPT ![r].new_stock = new_stock,
                                      ![r].created = now,
                                      ![r].pc = IF new_stock < 0
                                                THEN "rollback" ELSE "insert"]
    /\ UNCHANGED <<orders, queue, delivered, rate, now, events, socket>>

flash_buy_decr_before_lookup(r) ==
    /\ req[r].pc = "decr"
    /\ IF req[r].product \notin Catalogue
       THEN /\ Return(r, "NotFound")
            /\ stock' = (req[r].product :> (0 - req[r].quantity)) @@ stock
       ELSE LET p == req[r].product
                new_stock == stock[p] - req[r].quantity
            IN  /\ stock' = [stock EXCEPT ![p] = new_stock]
                /\ req' = [req EXCEPT ![r].new_stock = new_stock,
                                      ![r].created = now,
                                      ![r].pc = IF new_stock < 0
                                                THEN "rollback" ELSE "insert"]
    /\ UNCHANGED <<orders, queue, delivered, rate, now, events, socket>>

\* the product lookup and the atomic decrement: DECRBY stock:{id} quantity
flash_buy_decr(r) ==
    /\ req[r].pc = "decr"
    /\ IF req[r].product \notin Catalogue
       THEN /\ Return(r, "NotFound")
            /\ UNCHANGED stock
       ELSE LET p == req[r].product
                new_stock == stock[p] - req[r].quantity
            IN  /\ stock' = [stock EXCEPT ![p] = new_stock]
                /\ req' = [req EXCEPT ![r].new_stock = new_stock,
                                      ![r].created = now,
                                      ![r].pc = IF OutOfStock(new_stock)
                                                THEN "rollback" ELSE "insert"]
    /\ UNCHANGED <<orders, queue, delivered, rate, now, events, socket>>

Rollback_missing(p, q) == stock

Rollback_one_unit(p, q) == [stock EXCEPT ![p] = @ + 1]

\* Rollback - increment back
Rollback(p, q) == [stock EXCEPT ![p] = @ + q]

flash_buy_rollback(r) ==
    /\ req[r].pc = "rollback"
    /\ stock' = Rollback(req[r].product, req[r].quantity)
    /\ Return(r, "OutOfStock")
    /\ UNCHANGED <<orders, queue, delivered, rate, now, events, socket>>

\* the compensating INCRBY raises (Redis unreachable): flash_buy awaits it with no
\* try, no retry and no log, so the exception ends the request with a 500 and the
\* units taken by the decrement stay taken
flash_buy_rollback_raises(r) ==
    /\ req[r].pc = "rollback"
    /\ Return(r, "Error")
    /\ UNCHANGED <<stock, orders, queue, delivered, rate, now, events, socket>>

\* Order(...) as flash_buy builds it; the identifier is the record's place in the store
NewOrder(r) ==
    [id |-> Len(orders) + 1, user_id |-> req[r].user, product_id |-> req[r].product,
     quantity |-> req[r].quantity, status |-> "pending",
     created_at |-> req[r].created, updated_at |-> req[r].created]

flash_buy_insert_twice(r) ==
    /\ req[r].pc = "insert"
    /\ orders' = Append(Append(orders, NewOrder(r)),
                        [NewOrder(r) EXCEPT !.id = Len(orders) + 2])
    /\ req' = [req EXCEPT ![r].oid = Len(orders) + 1, ![r].pc = "enqueue"]
    /\ UNCHANGED <<stock, queue, delivered, rate, now, events, socket>>

flash_buy_insert_after_delay(r) ==
    /\ req[r].pc = "insert"
    /\ queue' = queue \cup {Len(orders) + 1}
    /\ req' = [req EXCEPT ![r].oid = Len(orders) + 1, ![r].pc = "enqueue"]
    /\ UNCHANGED <<stock, orders, delivered, rate, now, events, socket>>

\* await db.orders.insert_one(order_dict)
flash_buy_insert(r) ==
    /\ req[r].pc = "insert"
    /\ orders' = Append(orders, NewOrder(r))
    /\ req' = [req EXCEPT ![r].oid = Len(orders) + 1, ![r].pc = "enqueue"]
    /\ UNCHANGED <<stock, queue, delivered, rate, now, events, socket>>

\* process_order_task.delay(order_dict); return OrderStatus(status="pending")
flash_buy_enqueue(r) ==
    /\ req[r].pc = "enqueue"
    /\ queue' = queue \cup {req[r].oid}
    /\ Return(r, "pending")
    /\ UNCHANGED <<stock, orders, delivered, rate, now, events, socket>>

----------------------------------------------------------------------------
(* The event broadcaster.  events holds the stock_update events emitted so far. *)

\* await sio.emit('stock_update', {'product_id': ..., 'stock': ...}, room=...): the
\* helper is defined, but flash_buy, cancel_order and process_order_task never
\* call it (a comment at the end of websocket_manager.py says where to add the call)
broadcast_stock_update(p, new_stock) ==
    events \cup {[product_id |-> p, stock |-> new_stock]}

\* the room of a product's stock updates: f"product_{product_id}"
ProductRoom(p) == <<"product", p>>

\* the room every client is put in on its own when it connects: room=sid
OwnRoom(sid) == <<"sid", sid>>

Participants_everyone(room) == {sid \in Sids : sids[sid] = "open"}

\* the clients sio.emit(..., room=room) sends to: those in the room as it is called
Participants(room) == {sid \in Sids : <<room, sid>> \in rooms}

\* sio.emit(event, data, room=room): each client in the room is sent the message
Emit(room, msg) ==
    [sid \in Sids |-> IF sid \in Participants(room)
                      THEN Append(inbox[sid], msg) ELSE inbox[sid]]

\* the messages sent so far
Messages == Len(inbox["s1"]) + Len(inbox["s2"])

\* connect of websocket_manager.py; the server has put the client in its own room
\* before the handler runs
connect(sid) ==
    /\ sids[sid] = "new"
    /\ Messages < MaxMessages
    /\ sids' = [sids EXCEPT ![sid] = "open"]
    /\ connected_clients' = connected_clients @@ (sid :> [subscriptions |-> <<>>])
    /\ rooms' = rooms \cup {<<OwnRoom(sid), sid>>}
    /\ inbox' = [inbox EXCEPT ![sid] = Append(@, [event |-> "connection_established"])]
    /\ UNCHANGED <<stock, orders, queue, delivered, rate, now, req, events>>

disconnect_keeps_record(sid) ==
    /\ sids[sid] = "open"
    /\ sids' = [sids EXCEPT ![sid] = "closed"]
    /\ rooms' = {m \in rooms : m[2] # sid}
    /\ UNCHANGED <<connected_clients, inbox>>
    /\ UNCHANGED <<stock, orders, queue, delivered, rate, now, req, events>>

\* disconnect of websocket_manager.py: del connected_clients[sid]; after the handler
\* the server takes the client out of every room it is in
disconnect(sid) ==
    /\ sids[sid] = "open"
    /\ sids' = [sids EXCEPT ![sid] = "closed"]
    /\ connected_clients' = [s \in DOMAIN connected_clients \ {sid} |-> connected_clients[s]]
    /\ rooms' = {m \in rooms : m[2] # sid}
    /\ UNCHANGED inbox
    /\ UNCHANGED <<stock, orders, queue, delivered, rate, now, req, events>>

\* the value of data.get('product_id') when the message carries none
NoProduct == ""

\* subscribe_product of websocket_manager.py
subscribe_product(sid, product_id) ==
    /\ sids[sid] = "open"
    /\ IF product_id # NoProduct
       THEN /\ Messages < MaxMessages
            /\ rooms' = rooms \cup {<<ProductRoom(product_id), sid>>}
            /\ IF sid \in DOMAIN connected_clients
               THEN /\ Len(connected_clients[sid].subscriptions) < MaxSubs
                    /\ connected_clients' =
                          [connected_clients EXCEPT ![sid].subscriptions = Append(@, product_id)]
               ELSE UNCHANGED connected_clients
            /\ inbox' = Emit(OwnRoom(sid), [event |-> "subscribed", product_id |-> product_id])
       ELSE UNCHANGED <<connected_clients, rooms, inbox>>
    /\ UNCHANGED sids
    /\ UNCHANGED <<stock, orders, queue, delivered, rate, now, req, events>>

RECURSIVE Remove(_, _)
\* list.remove(x): the list without its first x
Remove(list, x) ==
    IF list = <<>> THEN <<>>
    ELSE IF Head(list) = x THEN Tail(list)
    ELSE <<Head(list)>> \o Remove(Tail(list), x)

\* unsubscribe_product of websocket_manager.py
unsubscribe_product(sid, product_id) ==
    /\ sids[sid] = "open"
    /\ IF product_id # NoProduct
       THEN /\ rooms' = rooms \ {<<ProductRoom(product_id), sid>>}
            /\ connected_clients' =
                  IF sid \in DOMAIN connected_clients
                  THEN [connected_clients EXCEPT ![sid].subscriptions = Remove(@, product_id)]
                  ELSE connected_clients
       ELSE UNCHANGED <<connected_clients, rooms>>
    /\ UNCHANGED <<sids, inbox>>
    /\ UNCHANGED <<stock, orders, queue, delivered, rate, now, req, events>>

\* the room of a user's order notifications: f"user_{user_id}"
UserRoom(u) == <<"user", u>>

\* the value of data.get('user_id') when the message carries none
NoUser == ""

\* subscribe_user_orders of websocket_manager.py: the client names the user; the
\* handler has nothing to compare the name with
subscribe_user_orders(sid, user_id) ==
    /\ sids[sid] = "open"
    /\ rooms' = IF user_id # NoUser THEN rooms \cup {<<UserRoom(user_id), sid>>} ELSE rooms
    /\ UNCHANGED <<sids, connected_clients, inbox>>
    /\ UNCHANGED <<stock, orders, queue, delivered, rate, now, req, events>>

\* broadcast_order_notification of websocket_manager.py: as in broadcast_stock_update
\* the message is built with str(logger.time()), which raises before sio.emit
emit_order_notification_raises(u) ==
    /\ UNCHANGED <<sids, connected_clients, rooms, inbox>>
    /\ UNCHANGED <<stock, orders, queue, delivered, rate, now, req, events>>

\* broadcast_stock_update of server_enhanced.py, called with a product and its count
emit_stock_update(p, new_stock) ==
    /\ Messages < MaxMessages
    /\ events' = broadcast_stock_update(p, new_stock)
    /\ inbox' = Emit(ProductRoom(p), [event |-> "stock_update", product_id |-> p,
                                      stock |-> new_stock])
    /\ UNCHANGED <<sids, connected_clients, rooms>>
    /\ UNCHANGED <<stock, orders, queue, delivered, rate, now, req>>

\* broadcast_stock_update of websocket_manager.py: the message is built with
\* 'timestamp': str(logger.time()), and a logging.Logger has no attribute time, so
\* the call raises before sio.emit is reached and nothing is sent
emit_stock_update_raises(p, new_stock) ==
    /\ UNCHANGED <<sids, connected_clients, rooms, inbox>>
    /\ UNCHANGED <<stock, orders, queue, delivered, rate, now, req, events>>

----------------------------------------------------------------------------
(* restock_product *)

\* the product lookup, then new_stock = await redis_client.incrby(stock_key, quantity)
restock_product(u, p, q) ==
    /\ req' = Append(req, [NewReq EXCEPT !.kind = "restock", !.user = u, !.product = p,
                                         !.quantity = q, !.pc = "done",
                                         !.new_stock = IF p \in Catalogue
                                                       THEN stock[p] + q ELSE 0,
                                         !.result = IF p \in Catalogue
                                                    THEN "restocked" ELSE "NotFound"])
    /\ stock' = IF p \in Catalogue THEN [stock EXCEPT ![p] = @ + q] ELSE stock
    /\ UNCHANGED <<orders, queue, delivered, rate, now, events, socket>>

----------------------------------------------------------------------------
(* get_products *)

\* a request that carries no Authorization header
NoCredential == ""

\* async def get_products(): the handler declares no Depends(get_current_user), so
\* the caller's credential is never looked at; it reads every product:* key and
\* its stock:{id} counter and returns the list
get_products(cred) ==
    /\ req' = Append(req, [NewReq EXCEPT !.kind = "get_products", !.user = cred,
                                  !.pc = "done", !.result = "products"])
    /\ UNCHANGED <<stock, orders, queue, delivered, rate, now, events, socket>>

----------------------------------------------------------------------------
(* cancel_order *)

CancelCheck_no_status_check(found, o, u, t) ==
    IF ~found THEN "NotFound"
    ELSE IF o.user_id # u THEN "Forbidden"
    ELSE IF t - o.created_at > CancelWindow THEN "WindowExpired"
    ELSE "ok"

CancelCheck_window_closed_early(found, o, u, t) ==
    IF ~found THEN "NotFound"
    ELSE IF o.user_id # u THEN "Forbidden"
    ELSE IF o.status # "pending" THEN "InvalidState"
    ELSE IF t - o.created_at >= CancelWindow THEN "WindowExpired"
    ELSE "ok"

CancelCheck_status_before_owner(found, o, u, t) ==
    IF ~found THEN "NotFound"
    ELSE IF o.status # "pending" THEN "InvalidState"
    ELSE IF o.user_id # u THEN "Forbidden"
    ELSE IF t - o.created_at > CancelWindow THEN "WindowExpired"
    ELSE "ok"

\* the checks of cancel_order on the record find_one returned, in the code's order
CancelCheck(found, o, u, t) ==
    IF ~found THEN "NotFound"
    ELSE IF o.user_id # u THEN "Forbidden"
    ELSE IF o.status # "pending" THEN "InvalidState"
    ELSE IF t - o.created_at > CancelWindow THEN "WindowExpired"
    ELSE "ok"

cancel_order_find_restores_first(u, o) ==
    LET found == o \in DOMAIN orders
        res == CancelCheck(found, IF found THEN orders[o] ELSE NewReq, u, now)
    IN  /\ req' = Append(req, [NewReq EXCEPT !.kind = "cancel", !.user = u, !.oid = o,
                                  !.product = IF res = "ok" THEN orders[o].product_id ELSE "",
                                  !.quantity = IF res = "ok" THEN orders[o].quantity ELSE 0,
                                  !.pc = IF res = "ok" THEN "update" ELSE "done",
                                  !.result = IF res = "ok" THEN "" ELSE res])
        /\ stock' = IF found
                    THEN [stock EXCEPT ![orders[o].product_id] = @ + orders[o].quantity]
                    ELSE stock
        /\ UNCHANGED <<orders, queue, delivered, rate, now, events, socket>>

\* order = await db.orders.find_one({"id": order_id}) and the checks on it
cancel_order_find(u, o) ==
    LET found == o \in DOMAIN orders
        res == CancelCheck(found, IF found THEN orders[o] ELSE NewReq, u, now)
    IN  /\ req' = Append(req, [NewReq EXCEPT !.kind = "cancel", !.user = u, !.oid = o,
                                  !.product = IF res = "ok" THEN orders[o].product_id ELSE "",
                                  !.quantity = IF res = "ok" THEN orders[o].quantity ELSE 0,
                                  !.pc = IF res = "ok" THEN "restore" ELSE "done",
                                  !.result = IF res = "ok" THEN "" ELSE res])
        /\ UNCHANGED <<stock, orders, queue, delivered, rate, now, events, socket>>

Restore_one_unit(p, q) == [stock EXCEPT ![p] = @ + 1]

Restore_first_product(p, q) == [stock EXCEPT !["prod_1"] = @ + q]

\* await redis_client.incrby(f"stock:{product_id}", quantity)
Restore(p, q) == [stock EXCEPT ![p] = @ + q]

cancel_order_restore(r) ==
    /\ req[r].pc = "restore"
    /\ stock' = Restore(req[r].product, req[r].quantity)
    /\ Goto(r, "update")
    /\ UNCHANGED <<orders, queue, delivered, rate, now, events, socket>>

\* the releasing INCRBY raises: the exception ends the request with a 500 before
\* the order is updated
cancel_order_restore_raises(r) ==
    /\ req[r].pc = "restore"
    /\ Return(r, "Error")
    /\ UNCHANGED <<stock, orders, queue, delivered, rate, now, events, socket>>

\* "$set": {"status": "cancelled", "updated_at": ..., "cancelled_at": ...}
Cancelled(o) == [orders EXCEPT ![o].status = "cancelled", ![o].updated_at = now]

\* await db.orders.update_one(...); return {"success": True, "refunded_stock": quantity}
cancel_order_update(r) ==
    /\ req[r].pc = "update"
    /\ orders' = Cancelled(req[r].oid)
    /\ req' = [req EXCEPT ![r].pc = "done", ![r].result = "cancelled",
                          ![r].refunded = req[r].quantity]
    /\ UNCHANGED <<stock, queue, delivered, rate, now, events, socket>>

----------------------------------------------------------------------------
(* The confirmation worker *)

Confirmed_toggles(o) ==
    [orders EXCEPT ![o].status = IF @ = "confirmed" THEN "pending" ELSE "confirmed",
                   ![o].updated_at = now]

\* "$set": {"status": "confirmed", "updated_at": order_data['updated_at']}
Confirmed(o) ==
    IF o \in DOMAIN orders
    THEN [orders EXCEPT ![o].status = "confirmed", ![o].updated_at = now]
    ELSE orders

\* time.sleep(2); db.orders.update_one({"id": order_data['id']}, ...)
process_order_task(o) ==
    /\ o \in queue
    /\ delivered[o] < MaxDeliveries
    /\ delivered' = [delivered EXCEPT ![o] = @ + 1]
    /\ orders' = Confirmed(o)
    /\ UNCHANGED <<stock, queue, rate, now, req, events, socket>>

\* the flag as the Order model of server_enhanced.py reads it from a stored document:
\* can_cancel: bool = True, so a document without the field is cancellable
can_cancel(o) ==
    IF "can_cancel" \in DOMAIN orders[o] THEN orders[o].can_cancel ELSE TRUE

\* "$set": {"status": "confirmed", "can_cancel": False} of server_enhanced.py
ConfirmedNotCancellable(o) ==
    [f \in DOMAIN orders[o] \cup {"can_cancel"} |->
        IF f = "status" THEN "confirmed"
        ELSE IF f = "can_cancel" THEN FALSE
        ELSE orders[o][f]]

\* process_order_task of server_enhanced.py
process_order_task_enhanced(o) ==
    /\ o \in queue
    /\ delivered[o] < MaxDeliveries
    /\ orders' = [orders EXCEPT ![o] = ConfirmedNotCancellable(o)]
    /\ delivered' = [delivered EXCEPT ![o] = @ + 1]
    /\ UNCHANGED <<stock, queue, rate, now, req, events, socket>>

\* a delivery whose MongoClient(...) or update_one raises: the task has no try, no
\* retry and no failure handler, so the exception ends it and nothing is written
process_order_task_raises(o) ==
    /\ o \in queue
    /\ delivered[o] < MaxDeliveries
    /\ delivered' = [delivered EXCEPT ![o] = @ + 1]
    /\ UNCHANGED <<stock, orders, queue, rate, now, req, events, socket>>

----------------------------------------------------------------------------
(* The wall clock: datetime.now(timezone.utc), in seconds since startup *)

Tick(step) ==
    /\ now + step <= MaxTicks * step
    /\ now' = now + step
    /\ rate' = ExpireKeys(now + step)
    /\ UNCHANGED <<stock, orders, queue, delivered, req, events, socket>>

----------------------------------------------------------------------------
(* The state after startup_event: initialize_products has seeded the counters *)

Seeded(units) ==
    /\ stock = [p \in Catalogue |-> units]
    /\ orders = <<>>
    /\ queue = {}
    /\ delivered = [o \in 1..RateReqs |-> 0]
    /\ rate = [u \in Users |-> NoKey]
    /\ now = 0
    /\ req = <<>>
    /\ events = {}
    /\ sids = [s \in Sids |-> "new"]
    /\ connected_clients = <<>>
    /\ rooms = {}
    /\ inbox = [s \in Sids |-> <<>>]

Init == Seeded(InitialStock)

\* startup_event of a process that starts over a Redis already in use:
\* initialize_products runs redis_client.set(f"stock:{id}", product['stock']) for
\* every product, whatever the counter holds
startup_event ==
    /\ stock' = [p \in Catalogue |-> InitialStock]
    /\ UNCHANGED <<orders, queue, delivered, rate, now, req, events, socket>>

\* a flash sale of FlashStock units
InitReserve == Seeded(FlashStock)

----------------------------------------------------------------------------
(* Concurrent purchases of one product: no cancellation, no restock *)

NextReserve ==
    \/ \E u \in Users, q \in 1..MaxQty :
          /\ Len(req) < FlashReqs
          /\ check_rate_limit(u, "prod_1", q)
    \/ \E r \in DOMAIN req : check_rate_limit_incr(r)
    \/ \E r \in DOMAIN req : flash_buy_decr(r)
    \/ \E r \in DOMAIN req : flash_buy_rollback(r)
    \/ \E r \in DOMAIN req : flash_buy_insert(r)
    \/ \E r \in DOMAIN req : flash_buy_enqueue(r)
    \/ \E o \in queue : process_order_task(o)

SpecReserve == InitReserve /\ [][NextReserve]_vars

(* Concurrent purchases and cancellations of one product *)

Next ==
    \/ \E u \in Users, q \in 1..MaxQty :
          /\ Len(req) < NumReqs
          /\ check_rate_limit(u, "prod_1", q)
    \/ \E u \in Users, o \in 1..(Len(orders) + 1) :
          /\ Len(req) < NumReqs
          /\ cancel_order_find(u, o)
    \/ \E r \in DOMAIN req : check_rate_limit_incr(r)
    \/ \E r \in DOMAIN req : flash_buy_decr(r)
    \/ \E r \in DOMAIN req : flash_buy_rollback(r)
    \/ \E r \in DOMAIN req : flash_buy_insert(r)
    \/ \E r \in DOMAIN req : flash_buy_enqueue(r)
    \/ \E r \in DOMAIN req : cancel_order_restore(r)
    \/ \E r \in DOMAIN req : cancel_order_update(r)
    \/ \E o \in queue : process_order_task(o)

Spec == Init /\ [][Next]_vars

(* One request at a time, on two products and an unknown one *)

NextSeq ==
    \/ \E u \in Users, p \in Catalogue \cup {UnknownProduct}, q \in 1..MaxQty :
          /\ Settled
          /\ Len(req) < SeqReqs
          /\ check_rate_limit(u, p, q)
    \/ \E u \in Users, o \in 1..(Len(orders) + 1) :
          /\ Settled
          /\ Len(req) < SeqReqs
          /\ cancel_order_find(u, o)
    \/ \E r \in DOMAIN req : check_rate_limit_incr(r)
    \/ \E r \in DOMAIN req : flash_buy_decr(r)
    \/ \E r \in DOMAIN req : flash_buy_rollback(r)
    \/ \E r \in DOMAIN req : flash_buy_insert(r)
    \/ \E r \in DOMAIN req : flash_buy_enqueue(r)
    \/ \E r \in DOMAIN req : cancel_order_restore(r)
    \/ \E r \in DOMAIN req : cancel_order_update(r)

SpecSeq == Init /\ [][NextSeq]_vars

(* One request at a time on one product, with the worker and the clock: one user
   buys, that user or another one cancels *)

NextWindow ==
    \/ \E u \in {"u1"}, q \in 1..MaxQty :
          /\ Settled
          /\ Len(req) < WindowReqs
          /\ check_rate_limit(u, "prod_1", q)
    \/ \E u \in Users, o \in 1..(Len(orders) + 1) :
          /\ Settled
          /\ Len(req) < WindowReqs
          /\ cancel_order_find(u, o)
    \/ \E r \in DOMAIN req : check_rate_limit_incr(r)
    \/ \E r \in DOMAIN req : flash_buy_decr(r)
    \/ \E r \in DOMAIN req : flash_buy_rollback(r)
    \/ \E r \in DOMAIN req : flash_buy_insert(r)
    \/ \E r \in DOMAIN req : flash_buy_enqueue(r)
    \/ \E r \in DOMAIN req : cancel_order_restore(r)
    \/ \E r \in DOMAIN req : cancel_order_update(r)
    \/ \E o \in queue : process_order_task(o)
    \/ Tick(CancelWindow \div 2)

SpecWindow == Init /\ [][NextWindow]_vars

(* One user's successive purchase requests, with the clock *)

NextRate ==
    \/ /\ Settled
       /\ Len(req) < RateReqs
       /\ check_rate_limit("u1", "prod_1", 1)
    \/ \E r \in DOMAIN req : check_rate_limit_incr(r)
    \/ \E r \in DOMAIN req : flash_buy_decr(r)
    \/ \E r \in DOMAIN req : flash_buy_rollback(r)
    \/ \E r \in DOMAIN req : flash_buy_insert(r)
    \/ \E r \in DOMAIN req : flash_buy_enqueue(r)
    \/ Tick(RateWindow \div 2)

SpecRate == Init /\ [][NextRate]_vars

(* One user's successive purchase requests, for a product or for an unknown one,
   up to the request that exceeds the rate limit *)

NextOutcomes ==
    \/ \E p \in {"prod_1", UnknownProduct} :
          /\ Settled
          /\ Len(req) < RateLimit + 1
          /\ check_rate_limit("u1", p, 1)
    \/ \E r \in DOMAIN req : check_rate_limit_incr(r)
    \/ \E r \in DOMAIN req : flash_buy_decr(r)
    \/ \E r \in DOMAIN req : flash_buy_rollback(r)
    \/ \E r \in DOMAIN req : flash_buy_insert(r)
    \/ \E r \in DOMAIN req : flash_buy_enqueue(r)

SpecOutcomes == Init /\ [][NextOutcomes]_vars

(* One request at a time, as a client may send it: a purchase of any quantity, a
   product listing with or without a credential *)

NextQty ==
    \/ \E cred \in Users \cup {NoCredential} :
          /\ Settled
          /\ Len(req) < SeqReqs
          /\ get_products(cred)
    \/ \E q \in Quantities :
          /\ Settled
          /\ Len(req) < SeqReqs
          /\ flash_buy("u1", "prod_1", q)
    \/ \E r \in DOMAIN req : check_rate_limit_incr(r)
    \/ \E r \in DOMAIN req : flash_buy_decr(r)
    \/ \E r \in DOMAIN req : flash_buy_rollback(r)
    \/ \E r \in DOMAIN req : flash_buy_insert(r)
    \/ \E r \in DOMAIN req : flash_buy_enqueue(r)

SpecQty == Init /\ [][NextQty]_vars

(* One purchase at a time, with a worker whose confirmation may fail *)

NextWorker ==
    \/ \E q \in 1..MaxQty :
          /\ Settled
          /\ Len(req) < SeqReqs
          /\ check_rate_limit("u1", "prod_1", q)
    \/ \E r \in DOMAIN req : check_rate_limit_incr(r)
    \/ \E r \in DOMAIN req : flash_buy_decr(r)
    \/ \E r \in DOMAIN req : flash_buy_rollback(r)
    \/ \E r \in DOMAIN req : flash_buy_insert(r)
    \/ \E r \in DOMAIN req : flash_buy_enqueue(r)
    \/ \E o \in queue : process_order_task(o)
    \/ \E o \in queue : process_order_task_raises(o)

SpecWorker == Init /\ [][NextWorker]_vars

\* a handler that has started runs to its return: the event loop resumes every
\* awaited call that completes
FairHandlers ==
    WF_vars(\E r \in DOMAIN req :
                \/ check_rate_limit_incr(r)
                \/ flash_buy_decr(r)
                \/ flash_buy_rollback(r)
                \/ flash_buy_insert(r)
                \/ flash_buy_enqueue(r))

\* a fair queue and a fair worker: a message that stays deliverable is eventually
\* delivered and its task run to the end
FairWorker == \A o \in 1..SeqReqs : WF_vars(process_order_task(o))

SpecFair == Init /\ [][NextWorker]_vars /\ FairHandlers /\ FairWorker

(* One request at a time, with a stock counter store whose compensating
   increments may fail *)

NextCompensation ==
    \/ \E q \in 1..MaxQty :
          /\ Settled
          /\ Len(req) < SeqReqs
          /\ check_rate_limit("u1", "prod_1", q)
    \/ \E o \in 1..(Len(orders) + 1) :
          /\ Settled
          /\ Len(req) < SeqReqs
          /\ cancel_order_find("u1", o)
    \/ \E r \in DOMAIN req : check_rate_limit_incr(r)
    \/ \E r \in DOMAIN req : flash_buy_decr(r)
    \/ \E r \in DOMAIN req : flash_buy_rollback(r)
    \/ \E r \in DOMAIN req : flash_buy_rollback_raises(r)
    \/ \E r \in DOMAIN req : flash_buy_insert(r)
    \/ \E r \in DOMAIN req : flash_buy_enqueue(r)
    \/ \E r \in DOMAIN req : cancel_order_restore(r)
    \/ \E r \in DOMAIN req : cancel_order_restore_raises(r)
    \/ \E r \in DOMAIN req : cancel_order_update(r)

SpecCompensation == Init /\ [][NextCompensation]_vars

(* One request at a time, with the worker of server_enhanced.py *)

NextEnhanced ==
    \/ \E q \in 1..MaxQty :
          /\ Settled
          /\ Len(req) < SeqReqs
          /\ check_rate_limit("u1", "prod_1", q)
    \/ \E o \in 1..(Len(orders) + 1) :
          /\ Settled
          /\ Len(req) < SeqReqs
          /\ cancel_order_find("u1", o)
    \/ \E r \in DOMAIN req : check_rate_limit_incr(r)
    \/ \E r \in DOMAIN req : flash_buy_decr(r)
    \/ \E r \in DOMAIN req : flash_buy_rollback(r)
    \/ \E r \in DOMAIN req : flash_buy_insert(r)
    \/ \E r \in DOMAIN req : flash_buy_enqueue(r)
    \/ \E r \in DOMAIN req : cancel_order_restore(r)
    \/ \E r \in DOMAIN req : cancel_order_update(r)
    \/ \E o \in DOMAIN orders : process_order_task_enhanced(o)

SpecEnhanced == Init /\ [][NextEnhanced]_vars

(* One request at a time on the last unit of a product: purchases of any quantity
   the request body admits, and cancellations *)

NextSigned ==
    \/ \E q \in Quantities \cup 1..MaxQty :
          /\ Settled
          /\ Len(req) < SeqReqs
          /\ flash_buy("u1", "prod_1", q)
    \/ \E o \in 1..(Len(orders) + 1) :
          /\ Settled
          /\ Len(req) < SeqReqs
          /\ cancel_order_find("u1", o)
    \/ \E r \in DOMAIN req : check_rate_limit_incr(r)
    \/ \E r \in DOMAIN req : flash_buy_decr(r)
    \/ \E r \in DOMAIN req : flash_buy_rollback(r)
    \/ \E r \in DOMAIN req : flash_buy_insert(r)
    \/ \E r \in DOMAIN req : flash_buy_enqueue(r)
    \/ \E r \in DOMAIN req : cancel_order_restore(r)
    \/ \E r \in DOMAIN req : cancel_order_update(r)

SpecSigned == InitReserve /\ [][NextSigned]_vars

(* The clients of the Socket.IO server and the stock updates sent to them *)

NextSocket ==
    \/ \E sid \in Sids : connect(sid)
    \/ \E sid \in Sids : disconnect(sid)
    \/ \E sid \in Sids, p \in Catalogue \cup {NoProduct} : subscribe_product(sid, p)
    \/ \E sid \in Sids, p \in Catalogue \cup {NoProduct} : unsubscribe_product(sid, p)
    \/ \E p \in Catalogue, n \in Counts : emit_stock_update(p, n)
    \/ \E p \in Catalogue, n \in Counts : emit_stock_update_raises(p, n)

SpecSocket == Init /\ [][NextSocket]_vars

(* One request at a time by either user, enough of them for one user to fill a
   window and be denied while the other goes on *)

NextUsers ==
    \/ \E u \in Users :
          /\ Settled
          /\ Len(req) < RateLimit + 2
          /\ check_rate_limit(u, "prod_1", 1)
    \/ \E r \in DOMAIN req : check_rate_limit_incr(r)
    \/ \E r \in DOMAIN req : flash_buy_decr(r)
    \/ \E r \in DOMAIN req : flash_buy_rollback(r)
    \/ \E r \in DOMAIN req : flash_buy_insert(r)
    \/ \E r \in DOMAIN req : flash_buy_enqueue(r)

SpecUsers == Init /\ [][NextUsers]_vars

(* Concurrent purchases, cancellations and restocks, and the worker *)

NextAll ==
    \/ \E u \in Users, q \in 1..MaxQty :
          /\ Len(req) < NumReqs
          /\ check_rate_limit(u, "prod_1", q)
    \/ \E u \in Users, o \in 1..(Len(orders) + 1) :
          /\ Len(req) < NumReqs
          /\ cancel_order_find(u, o)
    \/ \E p \in {"prod_1", UnknownProduct} :
          /\ Len(req) < NumReqs
          /\ restock_product("u1", p, 1)
    \/ \E r \in DOMAIN req : check_rate_limit_incr(r)
    \/ \E r \in DOMAIN req : flash_buy_decr(r)
    \/ \E r \in DOMAIN req : flash_buy_rollback(r)
    \/ \E r \in DOMAIN req : flash_buy_insert(r)
    \/ \E r \in DOMAIN req : flash_buy_enqueue(r)
    \/ \E r \in DOMAIN req : cancel_order_restore(r)
    \/ \E r \in DOMAIN req : cancel_order_update(r)
    \/ \E o \in queue : process_order_task(o)

SpecAll == Init /\ [][NextAll]_vars

(* One user's requests, two of them at a time at most, enough to pass the limit;
   they name a product that does not exist, so each ends at the product lookup *)

\* the most requests that are in flight together
Overlap == 2

NextBurst ==
    \/ /\ Cardinality({r \in DOMAIN req : InFlight(r)}) < Overlap
       /\ Len(req) < RateLimit + 1
       /\ check_rate_limit("u1", UnknownProduct, 1)
    \/ \E r \in DOMAIN req : check_rate_limit_incr(r)
    \/ \E r \in DOMAIN req : flash_buy_decr(r)

SpecBurst == Init /\ [][NextBurst]_vars

(* The clients of the Socket.IO server, their product and order subscriptions *)

NextNotify ==
    \/ \E sid \in Sids : connect(sid)
    \/ \E sid \in Sids : disconnect(sid)
    \/ \E sid \in Sids, p \in {"prod_1", NoProduct} : subscribe_product(sid, p)
    \/ \E sid \in Sids, p \in {"prod_1", NoProduct} : unsubscribe_product(sid, p)
    \/ \E sid \in Sids, u \in Users \cup {NoUser} : subscribe_user_orders(sid, u)
    \/ \E u \in Users : emit_order_notification_raises(u)

SpecNotify == Init /\ [][NextNotify]_vars

(* One purchase at a time, and restarts of the API process between them *)

NextRestart ==
    \/ \E q \in 1..MaxQty :
          /\ Settled
          /\ Len(req) < SeqReqs
          /\ check_rate_limit("u1", "prod_1", q)
    \/ \E r \in DOMAIN req : check_rate_limit_incr(r)
    \/ \E r \in DOMAIN req : flash_buy_decr(r)
    \/ \E r \in DOMAIN req : flash_buy_rollback(r)
    \/ \E r \in DOMAIN req : flash_buy_insert(r)
    \/ \E r \in DOMAIN req : flash_buy_enqueue(r)
    \/ Settled /\ startup_event

SpecRestart == Init /\ [][NextRestart]_vars

----------------------------------------------------------------------------
(* Properties *)

Active(o) == orders[o].status \in {"pending", "confirmed"}

ActiveOrders(p) == {o \in DOMAIN orders : orders[o].product_id = p /\ Active(o)}

RECURSIVE HeldUnits(_, _)
\* the units of product p held by the first n orders that are pending or confirmed
HeldUnits(p, n) ==
    IF n = 0 THEN 0
    ELSE HeldUnits(p, n - 1)
         + (IF orders[n].product_id = p /\ Active(n) THEN orders[n].quantity ELSE 0)

Buys(p) == {r \in DOMAIN req : req[r].kind = "flash_buy" /\ req[r].product = p}

WithResult(R, res) == {r \in R : req[r].pc = "done" /\ req[r].result = res}

\* C1: under concurrent purchases of quantity >= 1 with no cancellation and no
\* restock, the pending or confirmed orders of a product, and the units they hold,
\* never exceed the product's initial stock.
C1_NoOversell ==
    \A p \in Catalogue :
        /\ Cardinality(ActiveOrders(p)) <= FlashStock
        /\ HeldUnits(p, Len(orders)) <= FlashStock

\* the stock is sold out order by order and a further request was turned away
C1_Witness ==
    /\ Cardinality(ActiveOrders("prod_1")) = FlashStock
    /\ HeldUnits("prod_1", Len(orders)) = FlashStock
    /\ WithResult(Buys("prod_1"), "OutOfStock") # {}
    /\ \E o \in DOMAIN orders : orders[o].status = "confirmed"

\* C2: whenever no request is in flight, every stock counter is within 0 and the
\* original stock.
C2_SettledStockInRange ==
    Settled => \A p \in Catalogue : 0 <= stock[p] /\ stock[p] <= InitialStock

\* C3: when N >= S purchase requests of quantity 1, none of them rate limited, have
\* all returned, exactly S have succeeded, N - S have failed with OutOfStock and the
\* stock is 0.
C3_ExactlyStockSucceed ==
    \A p \in Catalogue :
        LET R == Buys(p) IN
        ( /\ Settled
          /\ \A r \in R : req[r].quantity = 1 /\ req[r].result # "RateLimited"
          /\ Cardinality(R) >= FlashStock )
        => /\ Cardinality(WithResult(R, "pending")) = FlashStock
           /\ Cardinality(WithResult(R, "OutOfStock")) = Cardinality(R) - FlashStock
           /\ stock[p] = 0

\* more requests of quantity 1 than units: all have returned, some turned away
C3_Witness ==
    /\ Settled
    /\ Len(req) = FlashReqs
    /\ FlashReqs > FlashStock
    /\ \A r \in DOMAIN req : req[r].quantity = 1
    /\ Cardinality(WithResult(Buys("prod_1"), "OutOfStock")) = FlashReqs - FlashStock
    /\ stock["prod_1"] = 0

\* the request that arrives in this step, if one does
Arrives == Len(req') = Len(req) + 1

Arrived == req'[Len(req')]

\* request r takes the step from position a to position b
Moves(r, a, b) == req[r].pc = a /\ req'[r].pc = b

\* C4: a cancel by the owner of a pending order within the window is accepted, adds
\* exactly the order's quantity to the product's stock counter, moves the order to
\* cancelled and reports that quantity as refunded.
C4_CancelRestoresQuantity ==
    [][ /\ \A o \in DOMAIN orders :
              ( /\ Arrives
                /\ Arrived.kind = "cancel"
                /\ Arrived.oid = o
                /\ Arrived.user = orders[o].user_id
                /\ orders[o].status = "pending"
                /\ now - orders[o].created_at <= CancelWindow )
              => Arrived.pc = "restore"
        /\ \A r \in DOMAIN req :
              LET o == req[r].oid IN
              /\ Moves(r, "restore", "update")
                    => stock' = [stock EXCEPT ![orders[o].product_id] =
                                                  @ + orders[o].quantity]
              /\ Moves(r, "update", "done")
                    => /\ orders'[o].status = "cancelled"
                       /\ req'[r].result = "cancelled"
                       /\ req'[r].refunded = orders[o].quantity
      ]_vars

\* an order of two units, cancelled by its owner some time after it was placed
C4_Witness ==
    \E r \in DOMAIN req :
        /\ req[r].kind = "cancel"
        /\ req[r].result = "cancelled"
        /\ req[r].refunded = MaxQty
        /\ orders[req[r].oid].quantity = MaxQty
        /\ orders[req[r].oid].status = "cancelled"
        /\ orders[req[r].oid].created_at < orders[req[r].oid].updated_at
        /\ stock["prod_1"] = InitialStock

CancelSucceeded(o) ==
    \E r \in DOMAIN req :
        req[r].kind = "cancel" /\ req[r].oid = o /\ req[r].result = "cancelled"

\* C5: once a cancel of an order has succeeded, a later cancel of that order fails
\* at once, with InvalidState when the order's owner asks again (Forbidden for
\* anyone else), and changes neither a stock counter nor an order.
C5_SecondCancelInvalidState ==
    [][ \A o \in DOMAIN orders :
            (CancelSucceeded(o) /\ Arrives /\ Arrived.kind = "cancel" /\ Arrived.oid = o)
            => /\ Arrived.pc = "done"
               /\ Arrived.result = IF Arrived.user = orders[o].user_id
                                   THEN "InvalidState" ELSE "Forbidden"
               /\ stock' = stock
               /\ orders' = orders
      ]_vars

\* the owner cancels, then cancels again
C5_Witness ==
    \E r1, r2 \in DOMAIN req :
        /\ r1 < r2
        /\ req[r1].kind = "cancel" /\ req[r2].kind = "cancel"
        /\ req[r1].oid = req[r2].oid
        /\ req[r1].user = req[r2].user
        /\ req[r1].result = "cancelled"
        /\ req[r2].result = "InvalidState"
        /\ orders[req[r1].oid].status = "cancelled"
        /\ stock = [p \in Catalogue |-> InitialStock]

\* C6: a cancel by the owner of a pending order more than 5 minutes after the
\* order's creation fails with WindowExpired and changes neither a stock counter nor
\* an order; at exactly 5 minutes it is still accepted.
C6_WindowExpired ==
    [][ \A o \in DOMAIN orders :
            ( /\ Arrives
              /\ Arrived.kind = "cancel"
              /\ Arrived.oid = o
              /\ Arrived.user = orders[o].user_id
              /\ orders[o].status = "pending" )
            => /\ now - orders[o].created_at > CancelWindow
                    => /\ Arrived.pc = "done"
                       /\ Arrived.result = "WindowExpired"
                       /\ stock' = stock
                       /\ orders' = orders
               /\ now - orders[o].created_at = CancelWindow
                    => Arrived.pc = "restore"
      ]_vars

\* a cancel turned away as too late: the order is still pending and holds its units
C6_Witness ==
    \E r \in DOMAIN req :
        /\ req[r].kind = "cancel"
        /\ req[r].result = "WindowExpired"
        /\ orders[req[r].oid].status = "pending"
        /\ now - orders[req[r].oid].created_at > CancelWindow
        /\ stock["prod_1"] = InitialStock - orders[req[r].oid].quantity

RECURSIVE WindowStart(_)
\* the request that opened the rate window request r falls in: the last one, up to
\* r, whose INCR created the window record
WindowStart(r) ==
    IF r = 1 \/ req[r].incr = 1 THEN r ELSE WindowStart(r - 1)

\* C7: of one user's successive requests in a window, the first RateLimit are
\* admitted and every further one is rejected as RateLimited; so with limit 10 the
\* 11th of 11 requests is rejected.
C7_AdmitsExactlyLimit ==
    \A r \in DOMAIN req :
        req[r].pc = "done"
        => (req[r].result = "RateLimited" <=> r - WindowStart(r) >= RateLimit)

\* eleven requests in one window: ten admitted, whatever came of them, the 11th denied
C7_Witness ==
    /\ Len(req) = RateLimit + 1
    /\ \A r \in 1..RateLimit : req[r].result \in {"pending", "OutOfStock"}
    /\ req[RateLimit + 1].result = "RateLimited"
    /\ now < RateWindow

\* request r returns in this step
Returns(r) == req'[r].pc = "done" /\ (r \in DOMAIN req => req[r].pc # "done")

\* a request that returns after a window with a denial in it is counted from the
\* start of its own window: the denial does not carry over
AdmittedAgain(r) ==
    (\E d \in 1..(WindowStart(r) - 1) : req[d].result = "RateLimited")
    => (req[r].result = "RateLimited" <=> r - WindowStart(r) >= RateLimit)

\* C8: when a rate window has expired its record is gone; the next request is
\* admitted and recreates the record with count 1 and a full window to live, and
\* the user is again admitted RateLimit times.
C8_WindowResets ==
    [][ /\ \A u \in Users :
              (now' > now /\ rate[u].expires <= now') => rate'[u] = NoKey
        /\ (Arrives /\ rate[Arrived.user] = NoKey)
              => Arrived.pc = "rate_incr" /\ Arrived.count = 0
        /\ \A r \in DOMAIN req :
              (Moves(r, "rate_incr", "decr") /\ rate[req[r].user] = NoKey)
              => /\ rate'[req[r].user] = [count |-> 1, expires |-> now + RateWindow]
                 /\ req'[r].incr = 1
        /\ \A r \in DOMAIN req' : Returns(r) => AdmittedAgain(r)'
      ]_vars

\* denied in a first window, then, the window expired, admitted ten more times and
\* denied again
C8_Witness ==
    /\ Len(req) = RateReqs
    /\ req[RateLimit + 1].result = "RateLimited"
    /\ req[RateLimit + 2].count = 0
    /\ req[RateLimit + 2].incr = 1
    /\ \A r \in (RateLimit + 2)..(2 * RateLimit + 1) : req[r].result = "OutOfStock"
    /\ req[RateReqs].result = "RateLimited"

\* C9: a redelivered confirmation finds the order confirmed and leaves it so: it
\* changes no stock counter, enqueues nothing, and changes nothing of any order but
\* the time of the update; every delivery leaves the order confirmed.
C9_ConfirmIdempotent ==
    [][ \A o \in DOMAIN orders :
            delivered'[o] = delivered[o] + 1
            => /\ orders'[o].status = "confirmed"
               /\ stock' = stock
               /\ queue' = queue
               /\ (delivered[o] >= 1 /\ orders[o].status = "confirmed")
                     => orders' = [orders EXCEPT ![o].updated_at = now]
      ]_vars

\* the same message delivered twice, the second time later than the first
C9_Witness ==
    \E o \in DOMAIN orders :
        /\ delivered[o] = 2
        /\ orders[o].status = "confirmed"
        /\ orders[o].updated_at > orders[o].created_at
        /\ stock["prod_1"] = InitialStock - orders[o].quantity

\* the purchase that created order o
BuyOf(o) == CHOOSE r \in DOMAIN req : req[r].kind = "flash_buy" /\ req[r].oid = o

\* C10: the release of a cancel, with no request on the product since the purchase
\* that reserved the units, puts the product's counter back to its value before the
\* reservation; the reserve and the release leave every other counter as it is.
C10_RoundTrip ==
    [][ \A r \in DOMAIN req :
            /\ Moves(r, "restore", "update")
                  => LET p == req[r].product
                         b == BuyOf(req[r].oid)
                     IN  /\ (\A k \in (b + 1)..(r - 1) : req[k].product # p)
                               => stock'[p] = req[b].new_stock + req[b].quantity
                         /\ \A p2 \in Catalogue \ {p} : stock'[p2] = stock[p2]
            /\ (Moves(r, "decr", "insert") \/ Moves(r, "decr", "rollback"))
                  => /\ req'[r].new_stock = stock[req[r].product] - req[r].quantity
                     /\ \A p2 \in Catalogue \ {req[r].product} : stock'[p2] = stock[p2]
      ]_vars

\* two units of the second product bought and released, a purchase of the first
\* product in between
C10_Witness ==
    \E r \in DOMAIN req :
        /\ req[r].kind = "cancel"
        /\ req[r].pc = "update"
        /\ req[r].product = "prod_2"
        /\ req[r].quantity = MaxQty
        /\ BuyOf(req[r].oid) < r - 1
        /\ \A k \in (BuyOf(req[r].oid) + 1)..(r - 1) : req[k].product = "prod_1"
        /\ stock["prod_2"] = InitialStock
        /\ stock["prod_1"] < InitialStock

\* C11: an order's status changes only from pending, to confirmed, cancelled or
\* failed; once it is confirmed, cancelled or failed it never changes again.
C11_TerminalStatus ==
    [][ \A o \in DOMAIN orders :
            orders'[o].status # orders[o].status
            => /\ orders[o].status = "pending"
               /\ orders'[o].status \in {"confirmed", "cancelled", "failed"}
      ]_vars

\* C12: a cancel reports the first failure that applies, in the order NotFound,
\* Forbidden, InvalidState, WindowExpired, and is accepted when none applies; so a
\* requester who does not own the order gets Forbidden whatever its status or age.
C12_CheckOrder ==
    [][ (Arrives /\ Arrived.kind = "cancel")
        => LET o == Arrived.oid
               failure == IF Arrived.pc = "done" THEN Arrived.result ELSE "none"
           IN  IF o \notin DOMAIN orders THEN failure = "NotFound"
               ELSE IF orders[o].user_id # Arrived.user THEN failure = "Forbidden"
               ELSE IF orders[o].status # "pending" THEN failure = "InvalidState"
               ELSE IF now - orders[o].created_at > CancelWindow
                    THEN failure = "WindowExpired"
               ELSE failure = "none" /\ Arrived.pc = "restore"
      ]_vars

\* another user's cancel of an order that is confirmed and past the window: Forbidden
C12_Witness ==
    \E r \in DOMAIN req :
        /\ req[r].kind = "cancel"
        /\ req[r].result = "Forbidden"
        /\ req[r].oid \in DOMAIN orders
        /\ orders[req[r].oid].user_id # req[r].user
        /\ orders[req[r].oid].status = "confirmed"
        /\ orders[req[r].oid].updated_at < now
        /\ now - orders[req[r].oid].created_at > CancelWindow

\* the orders whose record names request r's user, product and quantity
OrdersOf(r) ==
    {o \in DOMAIN orders : /\ orders[o].user_id = req[r].user
                           /\ orders[o].product_id = req[r].product
                           /\ orders[o].quantity = req[r].quantity}

\* C13: a purchase request that has returned has exactly one of the outcomes
\* success (status pending, with the order it created), OutOfStock, RateLimited and
\* NotFound: RateLimited when the window is full, else NotFound when the product
\* does not exist, else success or OutOfStock.
C13_PurchaseOutcomes ==
    \A r \in DOMAIN req :
        (req[r].kind = "flash_buy" /\ req[r].pc = "done")
        => /\ req[r].result \in {"pending", "OutOfStock", "RateLimited", "NotFound"}
           /\ req[r].result = "RateLimited" <=> req[r].count >= RateLimit
           /\ req[r].result = "NotFound"
                 <=> (req[r].count < RateLimit /\ req[r].product \notin Catalogue)
           /\ (req[r].count < RateLimit /\ req[r].product \in Catalogue)
                 => req[r].result \in {"pending", "OutOfStock"}
           /\ req[r].result = "pending"
                 <=> (req[r].oid \in OrdersOf(r) /\ req[r].oid \in queue)
           /\ req[r].result # "pending" => req[r].oid = 0

\* eleven requests of one user, each of the four outcomes among them
C13_Witness ==
    /\ Settled
    /\ Len(req) = RateLimit + 1
    /\ \A res \in {"pending", "OutOfStock", "RateLimited", "NotFound"} :
          \E r \in DOMAIN req : req[r].result = res

\* C14: a purchase request rejected as RateLimited returns at once; it decrements
\* no stock counter, creates no order and enqueues no message, then or later. Every
\* request that reaches the stock counter has been counted by the rate limiter.
C14_RateLimitedBeforeStock ==
    [][ /\ (Arrives /\ Arrived.result = "RateLimited")
              => /\ Arrived.pc = "done"
                 /\ stock' = stock
                 /\ orders' = orders
                 /\ queue' = queue
        /\ \A r \in DOMAIN req :
              /\ req[r].result = "RateLimited" => req'[r] = req[r]
              /\ (req[r].kind = "flash_buy" /\ req'[r].pc \in {"rollback", "insert"})
                    => req[r].incr >= 1 /\ req[r].count < RateLimit
      ]_vars

\* a request for a product in stock was turned away with the window full: the units
\* are still there, and the only orders are those placed before it
C14_Witness ==
    \E r \in DOMAIN req :
        /\ req[r].result = "RateLimited"
        /\ req[r].product = "prod_1"
        /\ req[r].oid = 0
        /\ stock["prod_1"] > 0
        /\ Len(orders) = InitialStock - stock["prod_1"]
        /\ Cardinality(queue) = Len(orders)
        /\ Len(orders) > 0

\* C15: every order has a quantity from 1 to the per-order maximum, and a purchase
\* request with a quantity outside that range creates no order and, once it has
\* returned, has left the stock counter as it was.
C15_QuantityInRange ==
    /\ \A o \in DOMAIN orders : orders[o].quantity \in 1..MaxOrderQty
    /\ \A r \in DOMAIN req :
          (req[r].kind = "flash_buy" /\ req[r].quantity \notin 1..MaxOrderQty)
          => /\ req[r].oid = 0
             /\ req[r].pc = "done" => stock["prod_1"] = InitialStock - HeldUnits("prod_1", Len(orders))

\* the purchase requests whose reservation succeeded and whose order is written
Reserved == {r \in DOMAIN req : req[r].kind = "flash_buy"
                                /\ req[r].pc \in {"enqueue", "done"}
                                /\ req[r].result \in {"", "pending"}}

\* every order has exactly one purchase request behind it, whose decrement left the
\* counter at 0 or more, and every such request has exactly one order, its own
OneOrderPerReservation ==
    /\ \A o \in DOMAIN orders :
          \E r \in Reserved :
              /\ req[r].oid = o
              /\ req[r].new_stock >= 0
              /\ o \in OrdersOf(r)
              /\ \A r2 \in DOMAIN req : req[r2].oid = o => r2 = r
    /\ \A r \in Reserved : req[r].oid \in DOMAIN orders
    /\ \A r \in DOMAIN req : r \notin Reserved => req[r].oid = 0
    /\ Len(orders) = Cardinality(Reserved)

C17_ListingRequiresCredential ==
    \A r \in DOMAIN req :
        (req[r].kind = "get_products" /\ req[r].user = NoCredential)
        => req[r].result = "Forbidden"

\* C18: once the deliveries of an order's message are used up without the order
\* having been confirmed, the order is failed and no longer holds its units: the
\* stock counter is the seed stock less the units of the pending and confirmed orders.
C18_FailedReleasesStock ==
    \A o \in DOMAIN orders :
        (delivered[o] = MaxDeliveries /\ orders[o].status # "confirmed")
        => /\ orders[o].status = "failed"
           /\ Settled => stock[orders[o].product_id]
                           = InitialStock - HeldUnits(orders[o].product_id, Len(orders))

\* the requests that changed a product's stock for good: purchases that succeeded
\* and cancellations that were accepted
StockChanging == {r \in DOMAIN req : req[r].pc = "done"
                                     /\ req[r].result \in {"pending", "cancelled"}}

\* C19: once the handlers have returned, every successful purchase and every
\* accepted cancellation has had a stock_update event for its product emitted.
C19_StockUpdateEvents ==
    Settled => \A r \in StockChanging :
                   \E e \in events : e.product_id = req[r].product

\* C20: an increment that finds its window open leaves the window's expiry as the
\* first increment set it, so the window closes RateWindow after its first action.
C20_ExpiryOnlyOnFirstIncrement ==
    [][ \A r \in DOMAIN req :
            (Moves(r, "rate_incr", "decr") /\ rate[req[r].user] # NoKey)
            => rate'[req[r].user].expires = rate[req[r].user].expires
      ]_vars

\* the request that opened the rate window the latest request falls in
LastWindowStart == WindowStart(Len(req))

\* C21: the window is fixed: it closes RateWindow after its first action, whatever
\* came in between, so a request that arrives once that time has passed is admitted;
\* one action at the start of a window, RateLimit - 1 just before it closes and
\* RateLimit just after are all admitted.
C21_BoundaryBurst ==
    [][ (Arrives /\ Len(req) >= 1 /\ Arrived.result = "RateLimited")
        => now < req[LastWindowStart].created + RateWindow
      ]_vars

\* the purchase requests whose decrement was rejected: it left the counter negative
Rejected == {r \in DOMAIN req : req[r].kind = "flash_buy" /\ req[r].new_stock < 0}

\* C22: no compensation is lost: once the handlers have returned, the decrement of
\* every rejected reservation has been added back (the code keeps no record of
\* unresolved inconsistencies that could stand in for it), so each counter is the
\* seed stock less the units of the pending and confirmed orders.
C22_NoLostCompensation ==
    Settled
    => /\ \A r \in Rejected : req[r].result = "OutOfStock"
       /\ \A p \in Catalogue : stock[p] = InitialStock - HeldUnits(p, Len(orders))

\* C23: in every reachable state an order whose status is not pending is marked not
\* cancellable, whether a cancel or a confirm took it out of pending.
C23_NotPendingNotCancellable ==
    \A o \in DOMAIN orders : orders[o].status # "pending" => ~can_cancel(o)

\* request r has decremented and has not added the units back
Taking(r) ==
    /\ req[r].kind = "flash_buy"
    /\ \/ req[r].pc \in {"rollback", "insert", "enqueue"}
       \/ req[r].pc = "done" /\ req[r].result = "pending"

RECURSIVE TakenUnits(_, _)
\* the units of product p taken by the first n requests and not added back
TakenUnits(p, n) ==
    IF n = 0 THEN 0
    ELSE TakenUnits(p, n - 1)
         + (IF req[n].product = p /\ Taking(n) THEN req[n].quantity ELSE 0)

\* the purchase requests that were rejected as OutOfStock
OutOfStockRejected == WithResult({r \in DOMAIN req : req[r].kind = "flash_buy"}, "OutOfStock")

\* C24: a reservation rejected as OutOfStock has no net effect: once its compensating
\* increment is done, the counter is the seed less the units of the other requests
\* that have decremented and not added back; the rejected request has no order and
\* nothing in the queue.
C24_OutOfStockNoNetEffect ==
    /\ \A p \in Catalogue : stock[p] = FlashStock - TakenUnits(p, Len(req))
    /\ \A r \in OutOfStockRejected :
          /\ req[r].oid = 0
          /\ \A o \in DOMAIN orders : \E t \in Reserved \ {r} : req[t].oid = o
    /\ queue \subseteq {req[t].oid : t \in WithResult(Reserved, "pending")}

\* a request for two units was rejected and compensated while another request's
\* order holds the last unit
C24_Witness ==
    \E r \in OutOfStockRejected :
        /\ req[r].quantity = 2
        /\ Len(orders) = 1
        /\ stock["prod_1"] = 0
        /\ queue = {1}

\* the requests that have decremented product p, seen a negative result and not
\* yet compensated
Failing(p) == {r \in Buys(p) : req[r].pc = "rollback"}

RECURSIVE FailingUnits(_, _)
\* the units the first n requests hold while failing on product p
FailingUnits(p, n) ==
    IF n = 0 THEN 0
    ELSE FailingUnits(p, n - 1) + (IF n \in Failing(p) THEN req[n].quantity ELSE 0)

\* C25: the negative window is bounded: the counter plus the units of the failing
\* reservations in flight is never below 0, so the counter reads negative only while
\* such a reservation is in flight, and no successful reservation has seen a
\* negative value after its decrement.
C25_NegativeWindowBounded ==
    /\ \A p \in Catalogue :
          /\ stock[p] + FailingUnits(p, Len(req)) >= 0
          /\ stock[p] < 0 => Failing(p) # {}
    /\ \A r \in Reserved : req[r].new_stock >= 0

\* C26: under a fair queue and a fair worker every accepted order eventually leaves
\* pending for one of confirmed, cancelled and failed.
C26_EventuallyLeavesPending ==
    \A o \in 1..SeqReqs :
        (o \in DOMAIN orders)
            ~> (o \in DOMAIN orders /\ orders[o].status \in {"confirmed", "cancelled", "failed"})

\* the clients whose connection has ended
Disconnected == {sid \in Sids : sids[sid] = "closed"}

\* the rooms client sid is in
RoomsOf(sid) == {m[1] : m \in {n \in rooms : n[2] = sid}}

\* the messages of an inbox that are stock updates
StockUpdates(box) == {i \in DOMAIN box : box[i].event = "stock_update"}

\* C27: a subscription lives no longer than its connection: once a client has
\* disconnected, the server holds no record of it, it is in no room, and it is sent
\* nothing more.
C27_NothingAfterDisconnect ==
    [][ \A sid \in Sids :
            sids'[sid] = "closed"
            => /\ sid \notin DOMAIN connected_clients'
               /\ \A m \in rooms' : m[2] # sid
               /\ inbox'[sid] = inbox[sid]
      ]_vars

\* s1 subscribed to prod_1 and disconnected; s2, subscribed to prod_1, has been sent
\* a stock update that s1 has not
C27_Witness ==
    /\ "s1" \in Disconnected
    /\ \E i \in DOMAIN inbox["s1"] : inbox["s1"][i] = [event |-> "subscribed", product_id |-> "prod_1"]
    /\ StockUpdates(inbox["s1"]) = {}
    /\ StockUpdates(inbox["s2"]) # {}
    /\ ProductRoom("prod_1") \in RoomsOf("s2")

\* C28: a stock update for a product is sent only to the clients that are in the
\* product's room as it is published: a client that joins later is sent none of the
\* earlier updates, a client that has left is sent none of the later ones, and the
\* clients of other products' rooms are sent nothing.
C28_OnlyCurrentSubscribers ==
    [][ \A sid \in Sids :
            \A i \in StockUpdates(inbox'[sid]) :
                i > Len(inbox[sid])
                => <<ProductRoom(inbox'[sid][i].product_id), sid>> \in rooms
      ]_vars

\* s1 has been sent a stock update of prod_1; s2, now in the room of prod_1 as well,
\* joined after it and has been sent no update
C28_Witness ==
    /\ \E i \in StockUpdates(inbox["s1"]) : inbox["s1"][i].product_id = "prod_1"
    /\ ProductRoom("prod_1") \in RoomsOf("s1") \cap RoomsOf("s2")
    /\ StockUpdates(inbox["s2"]) = {}

\* request r, a purchase of a product that does not exist, takes this step
UnknownProductStep(r) ==
    /\ req'[r].kind = "flash_buy"
    /\ req'[r].product \notin Catalogue
    /\ r \in DOMAIN req => req'[r] # req[r]

\* C29: a purchase request under the rate limit for a product that does not exist
\* fails with NotFound before any reservation is attempted: in none of its steps is
\* a stock counter created or changed or an order created or enqueued.
C29_UnknownProductNotFound ==
    [][ \A r \in DOMAIN req' :
            UnknownProductStep(r)
            => /\ stock' = stock
               /\ DOMAIN stock' = Catalogue
               /\ orders' = orders
               /\ queue' = queue
               /\ req'[r].oid = 0
               /\ (req'[r].pc = "done" /\ req'[r].count < RateLimit)
                     => req'[r].result = "NotFound"
               /\ req'[r].pc \in {"rate_incr", "decr", "done"}
      ]_vars

\* a request for an unknown product was answered NotFound after another request
\* had reserved a unit, and the counters are those of the catalogue
C29_Witness ==
    /\ Settled
    /\ \E r \in DOMAIN req :
          /\ req[r].product = UnknownProduct
          /\ req[r].result = "NotFound"
          /\ \E t \in 1..(r - 1) : req[t].result = "pending"
    /\ DOMAIN stock = Catalogue
    /\ stock["prod_1"] = InitialStock - Len(orders)

\* cancel requests on order o that have failed as WindowExpired or InvalidState
Refused(o) ==
    {r \in DOMAIN req : /\ req[r].kind = "cancel"
                        /\ req[r].oid = o
                        /\ req[r].pc = "done"
                        /\ req[r].result \in {"WindowExpired", "InvalidState"}}

\* C30: non-cancellability is permanent: once a cancel of an order has failed as
\* WindowExpired or InvalidState, every cancel request that arrives later for the
\* order fails too, and the order is not moved to cancelled any more.
C30_RefusedForGood ==
    [][ \A o \in DOMAIN orders :
            Refused(o) # {}
            => /\ (Arrives /\ Arrived.kind = "cancel" /\ Arrived.oid = o)
                     => Arrived.pc = "done" /\ Arrived.result # ""
               /\ orders[o].status # "cancelled" => orders'[o].status # "cancelled"
      ]_vars

\* the requests of user u that the rate limiter has counted
Counted(u) == {r \in DOMAIN req : req[r].user = u /\ req[r].incr >= 1}

\* C31: rate windows are independent per user: a step changes a user's count or
\* expiry only if it is a step of a request of that user, and a user is denied only
\* when RateLimit requests of their own have been counted.
C31_WindowsIndependent ==
    [][ /\ \A u \in Users :
              rate'[u] # rate[u]
              => \E r \in DOMAIN req : req[r].user = u /\ req'[r] # req[r]
        /\ (Arrives /\ Arrived.result = "RateLimited")
              => Cardinality(Counted(Arrived.user)) >= RateLimit
      ]_vars

\* u1 has filled the window and been denied; u2, arriving after the denial, was
\* admitted as the first of a window of their own
C31_Witness ==
    /\ Settled
    /\ \E d \in DOMAIN req :
          /\ req[d].user = "u1"
          /\ req[d].result = "RateLimited"
          /\ \E t \in (d + 1)..Len(req) : req[t].user = "u2" /\ req[t].incr = 1
    /\ rate["u1"].count = RateLimit
    /\ rate["u2"].count = 1

RECURSIVE Restocked(_, _)
\* the units the first n requests have restocked product p with
Restocked(p, n) ==
    IF n = 0 THEN 0
    ELSE Restocked(p, n - 1)
         + (IF req[n].kind = "restock" /\ req[n].product = p /\ req[n].result = "restocked"
            THEN req[n].quantity ELSE 0)

\* no operation is in flight: every handler has returned and every message in the
\* queue has been delivered
Quiet == Settled /\ \A o \in queue : delivered[o] >= 1

\* C32: stock is conserved: whenever no operation is in flight, each product's
\* counter plus the units of its pending and confirmed orders is the seeded stock
\* plus the units restocked, under any interleaving of purchases, cancellations,
\* deliveries and restocks.
C32_StockConserved ==
    Quiet => \A p \in Catalogue :
                 stock[p] + HeldUnits(p, Len(orders))
                     = InitialStock + Restocked(p, Len(req))

\* the cancel requests of order o that have added the order's quantity back
Released(o) ==
    {r \in DOMAIN req : /\ req[r].kind = "cancel"
                        /\ req[r].oid = o
                        /\ \/ req[r].pc = "update"
                           \/ req[r].pc = "done" /\ req[r].result = "cancelled"}

\* C33: of the concurrent cancel requests of one order at most one succeeds, and the
\* order's quantity is added back to the counter at most once.
C33_OneCancelSucceeds ==
    \A o \in DOMAIN orders :
        /\ Cardinality(Released(o)) <= 1
        /\ Cardinality(WithResult(Released(o), "cancelled")) <= 1

\* C34: under any interleaving of one user's concurrent requests, no more than
\* RateLimit of them are admitted within one window, and the window's count never
\* passes RateLimit.
C34_AtMostLimitAdmitted ==
    \A u \in Users :
        /\ Cardinality(Counted(u)) <= RateLimit
        /\ rate[u].count <= RateLimit

RECURSIVE ReservedUnits(_, _)
\* the units of product p that the successful reservations among the first n
\* requests hold
ReservedUnits(p, n) ==
    IF n = 0 THEN 0
    ELSE ReservedUnits(p, n - 1)
         + (IF req[n].product = p /\ Taking(n) /\ req[n].pc # "rollback"
            THEN req[n].quantity ELSE 0)

\* C35: a reservation of q units is rejected as OutOfStock only if fewer than q
\* units were available at its decrement, the seeded stock less the units held by
\* successful reservations; the decrement of a concurrent reservation that itself
\* fails does not count.
C35_NoSpuriousOutOfStock ==
    [][ \A r \in DOMAIN req :
            Moves(r, "decr", "rollback")
            => FlashStock - ReservedUnits(req[r].product, Len(req)) < req[r].quantity
      ]_vars

\* C36: a confirmation message is enqueued only once its order's pending record is
\* stored: every message in the queue names a stored order, an order is stored as
\* pending, and every delivery finds the order of its message.
C36_EnqueueAfterStore ==
    [][ /\ queue' \subseteq DOMAIN orders'
        /\ \A o \in DOMAIN orders' \ DOMAIN orders : orders'[o].status = "pending"
        /\ \A o \in DOMAIN delivered :
              delivered'[o] # delivered[o] => o \in DOMAIN orders /\ o \in queue
      ]_vars

\* the order of one request has been confirmed by a delivery while another request
\* is still in flight
C36_Witness ==
    /\ \E o \in queue : delivered[o] >= 1 /\ orders[o].status = "confirmed"
    /\ \E r \in DOMAIN req : InFlight(r)

\* the results of a cancel request that is refused before the release
RefusedEarly == {"NotFound", "Forbidden", "InvalidState"}

\* C37: a cancel request that fails with NotFound, Forbidden or InvalidState changes
\* nothing: it returns at once, and every product's counter and every order are the
\* same after the call as before it.
C37_FailedCancelChangesNothing ==
    [][ /\ (Arrives /\ Arrived.kind = "cancel" /\ Arrived.result \in RefusedEarly)
              => /\ Arrived.pc = "done"
                 /\ stock' = stock
                 /\ orders' = orders
                 /\ queue' = queue
        /\ \A r \in DOMAIN req :
              (req[r].kind = "cancel" /\ req[r].result \in RefusedEarly)
              => req'[r] = req[r]
      ]_vars

\* a cancel by someone other than the owner was refused as Forbidden and a cancel
\* of an order that does not exist as NotFound, and the order is pending still
C37_Witness ==
    /\ Settled
    /\ \E r \in DOMAIN req : req[r].kind = "cancel" /\ req[r].result = "Forbidden"
    /\ \E r \in DOMAIN req : req[r].kind = "cancel" /\ req[r].result = "NotFound"
    /\ \E o \in DOMAIN orders : orders[o].status = "pending"

\* C38: a rejected request does not extend the rate window: a denial changes neither
\* the count nor the expiry, every admitted request leaves the window to close
\* RateWindow later, and a request is denied only before that time, so a user at the
\* limit is admitted again RateWindow after their last admitted request at the
\* latest, however many denials lie in between.
C38_DenialKeepsWindow ==
    [][ /\ (Arrives /\ Arrived.result = "RateLimited")
              => /\ Arrived.pc = "done"
                 /\ rate' = rate
                 /\ now < rate[Arrived.user].expires
        /\ \A r \in DOMAIN req :
              /\ Moves(r, "rate_incr", "decr")
                    => rate'[req[r].user].expires = now + RateWindow
              /\ req[r].result = "RateLimited" => req'[r] = req[r]
      ]_vars

\* two denials in a row, and a later request admitted as the first of a new window
C38_Witness ==
    \E d \in DOMAIN req :
        /\ d + 2 <= Len(req)
        /\ req[d].result = "RateLimited"
        /\ req[d + 1].result = "RateLimited"
        /\ req[d + 2].incr = 1

\* the user whose client holds connection sid
Owner(sid) == IF sid = "s1" THEN "u1" ELSE "u2"

\* C39: order notifications of a user go only to that user's connections: no
\* connection is in the room of another user's orders, and none has been sent
\* another user's order notification.
C39_OwnOrderNotificationsOnly ==
    \A sid \in Sids :
        /\ \A u \in Users : UserRoom(u) \in RoomsOf(sid) => Owner(sid) = u
        /\ \A i \in DOMAIN inbox[sid] :
              inbox[sid][i].event = "order_notification"
              => inbox[sid][i].user_id = Owner(sid)

\* C40: once the counters are seeded, only purchases, cancellations and restocks
\* change them: a step that changes a counter is a step of one of these requests,
\* so running initialize_products again leaves a counter that sales have reduced
\* as it is.
C40_SeedOnlyOnce ==
    [][ stock' # stock
        => \E r \in DOMAIN req' :
               /\ req'[r].kind \in {"flash_buy", "cancel", "restock"}
               /\ r \in DOMAIN req => req'[r] # req[r]
      ]_vars

====
